---- MODULE Spec2Model ----
(***************************************************************************)
(* The streaming pipeline of the maritime intelligence backend:            *)
(*   main.py          run_logic (startup), /vessels, /ws                   *)
(*   db/session.py    wait_for_db                                          *)
(*   api/ais_client.py  start_ais_ingestion (producer), db_writer          *)
(*                      (consumer), process_and_flush                      *)
(*   api/broadcaster.py ConnectionManager                                  *)
(*   core/anomalies.py  AnomalyDetector.check_geofence_violation           *)
(* Every action is one run of a coroutine from one await to the next.      *)
(***************************************************************************)
EXTENDS Integers, Sequences, FiniteSets, TLC

\* ------------------------------------------------------------- bounds
\* Rows that one get_inactive_vessels query returns.
MaxVessels == 4
\* Feed messages received in one run.
MaxMsgs == 3
\* Websocket clients that may connect in one run.
MaxConns == 2
\* asyncio.Queue(maxsize=5000), scaled (ais_client.py:28).
QueueMaxSize == 2
\* batch_size = 50, scaled (ais_client.py:38).
BatchSize == 2
\* max_retries of wait_for_db (session.py:26).
max_retries == 10

\* ------------------------------------------------------------- values
\* Python's None, and a key that is missing from a JSON object.
None == "None"
Absent == "<absent>"

Conns == 1..MaxConns

\* dict.get(key, default): a key that is present with value null yields None,
\* only a missing key yields the default.
Get(d, k, default) == IF d[k] = Absent THEN default ELSE d[k]

\* Python truthiness of a JSON scalar.
Truthy(v) == v \notin {None, "0", ""}

\* str.strip() on the ship names of the feed.
Strip(s) == IF s = " NORD " THEN "NORD" ELSE s

\* The raw feed messages: MetaData is a JSON object ("dict"), null (None) or
\* missing (Absent); its keys likewise.
Msg(meta, mmsi, name, lat, lon) ==
    [MetaData |-> meta, MMSI |-> mmsi, ShipName |-> name, latitude |-> lat, longitude |-> lon]

FeedMessages ==
    { Msg("dict", "257", " NORD ", "60.4", "5.3"),   \* inside a geofence
      Msg("dict", "257", Absent,   "58.0", "4.0"),   \* outside every geofence
      Msg("dict", None,  "NORD",   "60.4", "5.3"),   \* no identifier
      Msg("dict", "257", "NORD",   None,   "5.3"),   \* null latitude
      Msg("dict", "257", "NORD",   "60.4", None),    \* null longitude
      Msg("dict", "257", None,     "60.4", "5.3"),   \* ShipName: null
      Msg(None,   Absent, Absent,  Absent, Absent),  \* MetaData: null
      Msg(Absent, Absent, Absent,  Absent, Absent) } \* no MetaData

\* meta = msg.get("MetaData", {}) and the reads of meta: these raise
\* AttributeError when MetaData is null, or when ShipName is null (.strip()).
NormalizeRaises(msg) ==
    \/ msg.MetaData = None
    \/ /\ msg.MetaData = "dict"
       /\ msg.ShipName = None

MetaGet(msg, k, default) ==
    IF msg.MetaData = Absent THEN default
    ELSE IF k = "MMSI" THEN Get(msg, "MMSI", default)
    ELSE IF k = "ShipName" THEN Get(msg, "ShipName", default)
    ELSE IF k = "latitude" THEN Get(msg, "latitude", default)
    ELSE Get(msg, "longitude", default)

\* vessel_data of a message that normalizes; id is the object's identity
\* (the ordinal of the message it was built from).
VesselData(msg, n) ==
    [id   |-> n,
     mmsi |-> MetaGet(msg, "MMSI", None),
     name |-> Strip(MetaGet(msg, "ShipName", "Unknown")),
     lat  |-> MetaGet(msg, "latitude", None),
     lon  |-> MetaGet(msg, "longitude", None)]

\* if vessel_data["mmsi"] and vessel_data["lat"] is not None
Accepted(v) == Truthy(v.mmsi) /\ v.lat # None

\* The geofences table as check_point_in_geofence reads it: the zone that
\* contains the point, or None; a NULL coordinate matches no row.
ZoneAt(lat, lon) ==
    IF lat = "60.4" /\ lon = "5.3" THEN "Bergen Port Safety Zone" ELSE None

\* ------------------------------------------------------------- state
VARIABLES
    logic,              \* run_logic: "wait_for_db", "initialize", "running", "fatal",
                        \*   "closing", "stopped"
    attempt,            \* wait_for_db: failed attempts so far (the loop's i)
    pool,               \* repo.pool: "unopened", "open", "closed"
    apiKey,             \* whether AIS_API_KEY is set
    earlyQuery,         \* who first used the pool before it was open, or None
    ppc,                \* start_ais_ingestion: "off", "start", "connect", "recv", "backoff",
                        \*   "cancelled"
    received,           \* feed messages read so far
    queue,              \* the asyncio.Queue
    lost,               \* "Processing queue full" warnings logged
    consumers,          \* db_writer tasks created
    cpc,                \* db_writer: "off", "get", "check", "alert", "update", "persist", "sleep",
                        \*   "cancelled"
    buffer,             \* db_writer's buffer
    idx,                \* process_and_flush: position of v in vessel_batch
    trigger,            \* which flush call is running: "size" (line 56), "time" (line 50)
    total_processed,    \* db_writer's total_processed
    active_connections, \* manager.active_connections
    wspc,               \* websocket_endpoint per client: "idle", "recv", "closed"
    bc,                 \* manager.broadcast calls in flight, per caller
    trace,              \* what the running process_and_flush call has done so far
    handed,             \* per report: process_and_flush calls that held it (0, 1, 2 = more)
    upserted,           \* per report: update_vessels_batch calls that held it (0, 1, 2 = more)
    called,             \* which functions of the detector have been called
    inactive,           \* get_enhanced_anomalies: the rows of repo.get_inactive_vessels
    report,             \* get_enhanced_anomalies: the dict it returned
    predictions,        \* get_enhanced_anomalies: its calls of calculate_predicted_pos
    fix,                \* calculate_predicted_pos: its arguments (and the clock)
    predicted           \* calculate_predicted_pos: the dict it returned

startupVars == <<logic, attempt, pool, apiKey, earlyQuery>>
producerVars == <<ppc, received, queue, lost>>
consumerVars == <<consumers, cpc, buffer, idx, trigger, total_processed, trace, handed, upserted>>
hubVars == <<active_connections, wspc, bc>>
detectorVars == <<called, inactive, report, predictions, fix, predicted>>
vars == <<startupVars, producerVars, consumerVars, hubVars, detectorVars>>

\* The callers of manager.broadcast: process_and_flush, and force_alarm in
\* two requests that are served at the same time.
ForceAlarmRequests == {"http", "http2"}
Callers == {"consumer"} \cup ForceAlarmRequests
Ids == 1..MaxMsgs

\* No broadcast in flight.
Idle == [on |-> FALSE, tasks |-> <<>>, pending |-> {}, failed |-> {}, delivered |-> {}]

Init ==
    /\ logic = "wait_for_db"
    /\ attempt = 0
    /\ pool = "unopened"
    /\ apiKey \in BOOLEAN
    /\ earlyQuery = None
    /\ ppc = "off"
    /\ received = 0
    /\ queue = <<>>
    /\ lost = 0
    /\ consumers = 0
    /\ cpc = "off"
    /\ buffer = <<>>
    /\ idx = 0
    /\ trigger = None
    /\ total_processed = 0
    /\ active_connections = <<>>
    /\ wspc = [c \in Conns |-> "idle"]
    /\ bc = [k \in Callers |-> Idle]
    /\ trace = <<>>
    /\ handed = [i \in Ids |-> 0]
    /\ upserted = [i \in Ids |-> 0]
    /\ called = {}
    /\ inactive = <<>>
    /\ report = [alerts |-> <<>>, clusters |-> <<>>]
    /\ predictions = 0
    /\ fix = [lat |-> 0, lon |-> 0, speed |-> 0, course |-> 0, last_seen |-> 0, now |-> 0]
    /\ predicted = [lat |-> 0, lon |-> 0]

\* ------------------------------------------------------------- startup
\* wait_for_db: one pass of the for loop; a failed attempt sleeps and loops.
WaitForDbAttempt ==
    /\ logic = "wait_for_db"
    /\ attempt < max_retries
    /\ \E connected \in BOOLEAN :
          IF connected
          THEN logic' = "initialize" /\ attempt' = 0   \* the loop's i is gone
          ELSE attempt' = attempt + 1 /\ UNCHANGED logic
    /\ UNCHANGED <<pool, apiKey, earlyQuery, producerVars, consumerVars, hubVars>>
    /\ UNCHANGED detectorVars

\* wait_for_db logging its critical error and returning instead of raising.
WaitForDbGiveUpProceeds ==
    /\ logic = "wait_for_db"
    /\ attempt = max_retries
    /\ logic' = "initialize"
    /\ UNCHANGED <<attempt, pool, apiKey, earlyQuery, producerVars, consumerVars, hubVars>>
    /\ UNCHANGED detectorVars

\* wait_for_db: the loop is exhausted, the exception leaves run_logic.
WaitForDbGiveUp ==
    /\ logic = "wait_for_db"
    /\ attempt = max_retries
    /\ logic' = "fatal"
    /\ UNCHANGED <<attempt, pool, apiKey, earlyQuery, producerVars, consumerVars, hubVars>>
    /\ UNCHANGED detectorVars

\* repo.initialize(), then run_logic up to its sleep: the ingestion task is
\* created only when the API key is set.
RepoInitialize ==
    /\ logic = "initialize"
    /\ pool' = "open"
    /\ logic' = "running"
    /\ ppc' = IF apiKey THEN "start" ELSE "off"
    /\ UNCHANGED <<attempt, apiKey, earlyQuery, received, queue, lost, consumerVars, hubVars>>
    /\ UNCHANGED detectorVars

\* A pool.connection() on a pool that was never opened raises; the caller
\* (get_vessels, the MCP tools) catches it and answers with the error.
UsePool(who) ==
    earlyQuery' = IF pool = "unopened" /\ earlyQuery = None THEN who ELSE earlyQuery

\* GET /vessels: repo.get_vessels_in_radius(60.0, 10.0, 500.0).
GetVessels ==
    /\ logic # "fatal"
    /\ UsePool("http")
    /\ UNCHANGED <<logic, attempt, pool, apiKey, producerVars, consumerVars, hubVars>>
    /\ UNCHANGED detectorVars

\* The MCP tools get_ships_in_area and analyze_maritime_security.
McpTool ==
    /\ logic # "fatal"
    /\ UsePool("mcp")
    /\ UNCHANGED <<logic, attempt, pool, apiKey, producerVars, consumerVars, hubVars>>
    /\ UNCHANGED detectorVars

\* run_logic is cancelled in its sleep loop: the finally of lines 150-152
\* cancels the ingestion task (the producer; a task that has not run yet
\* never runs) and goes on to await repo.close(). The db_writer task, created
\* inside start_ais_ingestion, is not the task that is cancelled.
RunLogicCancelled ==
    /\ logic = "running"
    /\ logic' = "closing"
    /\ ppc' = IF ppc = "off" THEN "off" ELSE "cancelled"
    /\ UNCHANGED <<attempt, pool, apiKey, earlyQuery, received, queue, lost, consumerVars, hubVars>>
    /\ UNCHANGED detectorVars

\* repo.close() returns: the pool is closed, run_logic has shut down.
RepoClose ==
    /\ logic = "closing"
    /\ pool' = "closed"
    /\ logic' = "stopped"
    /\ UNCHANGED <<attempt, apiKey, earlyQuery, producerVars, consumerVars, hubVars>>
    /\ UNCHANGED detectorVars

\* asyncio.run(start_all()) ends: once the gathered coroutines are over, the
\* event loop cancels every task that is left, the consumer and the sends
\* of its broadcast with it.
LoopTeardown ==
    /\ logic = "stopped"
    /\ cpc \notin {"off", "cancelled"}
    /\ cpc' = "cancelled"
    /\ bc' = [bc EXCEPT !["consumer"] = Idle]
    /\ UNCHANGED <<startupVars, producerVars, consumers, buffer, idx, trigger, total_processed,
                   trace, handed, upserted, active_connections, wspc>>
    /\ UNCHANGED detectorVars

\* ------------------------------------------------------------- producer
\* The task starts: the queue exists, create_task(db_writer()) runs the
\* consumer up to its first queue.get(), the producer goes to connect.
IngestionStart ==
    /\ ppc = "start"
    /\ ppc' = "connect"
    /\ consumers' = consumers + 1
    /\ cpc' = "get"
    /\ UNCHANGED <<startupVars, received, queue, lost, buffer, idx, trigger,
                   total_processed, trace, handed, upserted, hubVars>>
    /\ UNCHANGED detectorVars

\* The loop with create_task(db_writer()) moved into it: a consumer more with
\* every connection.
FeedConnectSpawnsWriter ==
    /\ ppc = "connect"
    /\ \E ok \in BOOLEAN : ppc' = IF ok THEN "recv" ELSE "backoff"
    /\ consumers' = consumers + 1
    /\ UNCHANGED <<startupVars, received, queue, lost, cpc, buffer, idx, trigger,
                   total_processed, trace, handed, upserted, hubVars>>
    /\ UNCHANGED detectorVars

\* websockets.connect and ws.send(subscribe_msg); a failure is caught by the
\* except of the while loop, which sleeps 5 seconds.
FeedConnect ==
    /\ ppc = "connect"
    /\ \E ok \in BOOLEAN : ppc' = IF ok THEN "recv" ELSE "backoff"
    /\ UNCHANGED <<startupVars, received, queue, lost, consumerVars, hubVars>>
    /\ UNCHANGED detectorVars

\* A queue built without maxsize never raises QueueFull.
PutNowaitUnbounded(q, v) == Append(q, v)

\* queue.put_nowait(vessel_data): QueueFull is caught and logged.
PutNowait(q, v) == IF Len(q) < QueueMaxSize THEN Append(q, v) ELSE q

\* One pass of "async for message in ws".
FeedMessage(msg) ==
    /\ ppc = "recv"
    /\ received < MaxMsgs
    /\ received' = received + 1
    /\ IF NormalizeRaises(msg)
       THEN /\ ppc' = "backoff"
            /\ UNCHANGED <<queue, lost>>
       ELSE LET v == VesselData(msg, received + 1) IN
            /\ ppc' = "recv"
            /\ queue' = IF Accepted(v) THEN PutNowait(queue, v) ELSE queue
            /\ lost' = IF Accepted(v) /\ Len(queue) >= QueueMaxSize THEN lost + 1 ELSE lost
    /\ UNCHANGED <<startupVars, consumerVars, hubVars>>
    /\ UNCHANGED detectorVars

\* The feed closes the connection: a normal close ends the async for and the
\* while loop connects again at once; an abnormal one raises into the except.
FeedClosed ==
    /\ ppc = "recv"
    /\ \E normal \in BOOLEAN : ppc' = IF normal THEN "connect" ELSE "backoff"
    /\ UNCHANGED <<startupVars, received, queue, lost, consumerVars, hubVars>>
    /\ UNCHANGED detectorVars

\* A reconnect that starts over with a new queue.
FeedBackoffNewQueue ==
    /\ ppc = "backoff"
    /\ ppc' = "connect"
    /\ queue' = <<>>
    /\ UNCHANGED <<startupVars, received, lost, consumerVars, hubVars>>
    /\ UNCHANGED detectorVars

\* asyncio.sleep(5) of the except branch ends.
FeedBackoff ==
    /\ ppc = "backoff"
    /\ ppc' = "connect"
    /\ UNCHANGED <<startupVars, received, queue, lost, consumerVars, hubVars>>
    /\ UNCHANGED detectorVars

\* ------------------------------------------------------------- hub
Contains(s, c) == \E i \in 1..Len(s) : s[i] = c

\* list.remove(c): the first occurrence goes.
Remove(s, c) ==
    LET i == CHOOSE i \in 1..Len(s) : s[i] = c /\ \A j \in 1..(i - 1) : s[j] # c
    IN  SubSeq(s, 1, i - 1) \o SubSeq(s, i + 1, Len(s))

\* A disconnect that drops the connection registered last.
DisconnectLast(conns, c) ==
    IF conns = <<>> THEN conns ELSE SubSeq(conns, 1, Len(conns) - 1)

\* ConnectionManager.disconnect
Disconnect(conns, c) == IF Contains(conns, c) THEN Remove(conns, c) ELSE conns

\* _send_safe without its disconnect: a failed client stays registered.
SendSafeKeeps(conns, c, ok) == conns

\* ConnectionManager._send_safe: what the registered list is after the send.
SendSafe(conns, c, ok) == IF ok THEN conns ELSE Disconnect(conns, c)

\* A broadcast that makes its list of sends twice over.
BroadcastTwice(conns) ==
    IF conns = <<>> THEN Idle
    ELSE [on |-> TRUE, tasks |-> conns \o conns, pending |-> 1..(2 * Len(conns)),
          failed |-> {}, delivered |-> {}]

\* ConnectionManager.broadcast up to its gather: one _send_safe per
\* registered connection; nothing at all when nobody is registered.
Broadcast(conns) ==
    IF conns = <<>> THEN Idle
    ELSE [on |-> TRUE, tasks |-> conns, pending |-> 1..Len(conns),
          failed |-> {}, delivered |-> {}]

\* websocket_endpoint: manager.connect, then the receive loop.
WsConnect(c) ==
    /\ wspc[c] = "idle"
    /\ wspc' = [wspc EXCEPT ![c] = "recv"]
    /\ active_connections' = Append(active_connections, c)
    /\ UNCHANGED <<startupVars, producerVars, consumerVars, bc>>
    /\ UNCHANGED detectorVars

\* websocket_endpoint: receive_text raises, manager.disconnect.
WsDisconnect(c) ==
    /\ wspc[c] = "recv"
    /\ wspc' = [wspc EXCEPT ![c] = "closed"]
    /\ active_connections' = Disconnect(active_connections, c)
    /\ UNCHANGED <<startupVars, producerVars, consumerVars, bc>>
    /\ UNCHANGED detectorVars

\* One _send_safe of a broadcast in flight: send_text succeeds or raises (it
\* always raises on a socket that is closed).
BroadcastSend(k, i) ==
    /\ bc[k].on
    /\ i \in bc[k].pending
    /\ LET c == bc[k].tasks[i] IN
       \E ok \in (IF wspc[c] = "closed" THEN {FALSE} ELSE BOOLEAN) :
          /\ active_connections' = SendSafe(active_connections, c, ok)
          /\ bc' = [bc EXCEPT ![k].pending = @ \ {i},
                              ![k].failed = IF ok THEN @ ELSE @ \cup {c},
                              ![k].delivered = IF ok THEN @ \cup {c} ELSE @]
    /\ UNCHANGED <<startupVars, producerVars, consumerVars, wspc>>
    /\ UNCHANGED detectorVars

\* GET /force-alarm/{severity}: manager.broadcast(alert_msg).
ForceAlarm(k) ==
    /\ ~bc[k].on
    /\ bc' = [bc EXCEPT ![k] = Broadcast(active_connections)]
    /\ UNCHANGED <<startupVars, producerVars, consumerVars, active_connections, wspc>>
    /\ UNCHANGED detectorVars

\* force_alarm: the gather is complete, the handler answers.
ForceAlarmReturn(k) ==
    /\ bc[k].on
    /\ bc[k].pending = {}
    /\ bc' = [bc EXCEPT ![k] = Idle]
    /\ UNCHANGED <<startupVars, producerVars, consumerVars, active_connections, wspc>>
    /\ UNCHANGED detectorVars

\* ------------------------------------------------------------- consumer
\* The messages process_and_flush hands to manager.broadcast, and the
\* argument of repo.update_vessels_batch (written as a message too).
\* An alert that names the vessel by its identifier.
AlertMessageByMmsi(v, zone) == [type |-> "ALERT", data |-> zone, vessel |-> v.mmsi]

\* The dict of lines 82-86.
AlertMessage(v, zone) == [type |-> "ALERT", data |-> zone, vessel |-> v.name]
UpdateMessage(batch) == [type |-> "VESSEL_UPDATE", data |-> batch]

\* An upsert of the first report of the batch only.
UpsertCallHeadOnly(batch) == [type |-> "UPSERT", data |-> <<batch[1]>>]

\* repo.update_vessels_batch(vessel_batch): one tuple per report, in the
\* order of the list, in one executemany.
UpsertCall(batch) == [type |-> "UPSERT", data |-> batch]

\* Entries of trace: a call is started, has returned, or has raised.
Call(m, b) == [ev |-> "call", msg |-> m, batch |-> b]
Return(m, b) == [ev |-> "return", msg |-> m, batch |-> b]
Raise(m, b) == [ev |-> "raise", msg |-> m, batch |-> b]

\* The geofence query for report v, and the entry of trace for its outcome:
\* what check_geofence_violation returned, and whether the query had raised
\* (the logger.error of line 76).
GeofenceQuery(v) == [type |-> "GEOFENCE", data |-> None, failed |-> FALSE]
Checked(v, violation, raises) ==
    [ev |-> "checked", msg |-> [type |-> "GEOFENCE", data |-> violation, failed |-> raises],
     batch |-> <<v>>]

\* An exception on its way out of a call.
Raised == "<raised>"

\* A gather of sends that do not catch: the first failure is raised to the
\* caller of broadcast.
GatherOutcomeRaises(b) == IF b.failed # {} THEN Raised ELSE "returned"

\* What the gather of line 66 hands to the caller of broadcast once all
\* sends are done: each _send_safe has caught its own exception (lines
\* 79-83), so the gather returns whatever the sends did.
GatherOutcome(b) == "returned"

\* check_geofence_violation without its try/except.
CheckGeofenceUncaught(lat, lon, raises) ==
    IF raises THEN Raised ELSE ZoneAt(lat, lon)

\* AnomalyDetector.check_geofence_violation: the row of the store, None when
\* the query raises.
CheckGeofenceViolation(lat, lon, raises) ==
    IF raises THEN None ELSE ZoneAt(lat, lon)

\* Sections B and C exchanged: the upsert before the map broadcast.
FlushOrderPersistFirst == <<"check", "persist", "update">>

\* The sections of process_and_flush in the order of the source: A (the
\* geofence checks and their alerts), B (the map broadcast), C (the upsert).
FlushOrder == <<"check", "update", "persist">>

PhaseAfter(p) ==
    LET i == CHOOSE i \in 1..Len(FlushOrder) : FlushOrder[i] = p
    IN  IF i < Len(FlushOrder) THEN FlushOrder[i + 1] ELSE "done"

\* db_writer without its except: the exception ends the task.
AfterConsumerErrorTaskEnds == "ended"

\* Where db_writer goes when process_and_flush raises: the except of line 65
\* logs, sleeps a second and the while loop goes on.
AfterConsumerError == "sleep"

\* What db_writer does with its buffer once process_and_flush has returned
\* (buffer.clear()), and when it has raised (nothing: the clear is skipped).
BufferAfterFlush(b, ok) == IF ok THEN <<>> ELSE b

Bump(f, batch) ==
    [i \in Ids |-> IF \E j \in 1..Len(batch) : batch[j].id = i
                   THEN (IF f[i] < 2 THEN f[i] + 1 ELSE 2) ELSE f[i]]

\* process_and_flush run from the start of section p (at report k of section
\* A) to its next await: where it waits, the trace so far, and whether it
\* waits for a broadcast it has just dispatched.
RECURSIVE Run(_, _, _, _)
Run(p, k, tr, batch) ==
    CASE p = "check" /\ k <= Len(batch) ->
           [pc |-> "check", idx |-> k, trace |-> tr, send |-> FALSE]
      [] p = "check" /\ k > Len(batch) ->
           Run(PhaseAfter("check"), 0, tr, batch)
      [] p = "update" ->
           LET m == UpdateMessage(batch) IN
           IF active_connections = <<>>
           THEN Run(PhaseAfter("update"), 0,
                    tr \o <<Call(m, batch), Return(m, batch)>>, batch)
           ELSE [pc |-> "update", idx |-> 0, trace |-> Append(tr, Call(m, batch)),
                 send |-> TRUE]
      [] p = "persist" ->
           [pc |-> "persist", idx |-> 0,
            trace |-> Append(tr, Call(UpsertCall(batch), batch)), send |-> FALSE]
      [] OTHER ->
           [pc |-> "done", idx |-> 0, trace |-> tr, send |-> FALSE]

\* Section A is done with report k.
NextReport(k, tr, batch) ==
    IF k < Len(batch) THEN Run("check", k + 1, tr, batch)
    ELSE Run(PhaseAfter("check"), 0, tr, batch)

\* The consumer is inside process_and_flush.
Flushing == cpc \in {"check", "alert", "update", "persist"}

\* db_writer takes up r, the point process_and_flush(batch) has run to; when
\* the call has returned, lines 51-52 / 57-63 follow and the loop goes on.
Resume(r, batch) ==
    /\ trace' = IF r.pc = "done" THEN <<>> ELSE r.trace
    /\ idx' = r.idx
    /\ bc' = IF r.send THEN [bc EXCEPT !["consumer"] = Broadcast(active_connections)] ELSE bc
    /\ upserted' = IF r.pc = "persist" THEN Bump(upserted, batch) ELSE upserted
    /\ IF r.pc = "done"
       THEN /\ cpc' = "get"
            /\ total_processed' = total_processed + Len(batch)
            /\ buffer' = BufferAfterFlush(batch, TRUE)
       ELSE /\ cpc' = r.pc
            /\ total_processed' = total_processed
            /\ buffer' = batch

\* process_and_flush(batch) is called.
Flush(batch, why) ==
    /\ trigger' = why
    /\ handed' = Bump(handed, batch)
    /\ Resume(Run(FlushOrder[1], 1, <<>>, batch), batch)

\* A timeout that flushes nothing, whatever the buffer holds.
FlushOnTimeoutNever(b) == FALSE

\* A timeout that flushes without looking at the buffer.
FlushOnTimeoutAlways(b) == TRUE

\* "if buffer:" of line 49.
FlushOnTimeout(b) == b # <<>>

\* queue.get() returns an entry: lines 46-47, then 55-63.
ConsumerGet ==
    /\ cpc = "get"
    /\ queue # <<>>
    /\ queue' = Tail(queue)
    /\ LET b == Append(buffer, Head(queue)) IN
       IF Len(b) >= BatchSize
       THEN Flush(b, "size")
       ELSE /\ buffer' = b
            /\ UNCHANGED <<cpc, idx, trigger, total_processed, trace, handed, upserted, bc>>
    /\ UNCHANGED <<startupVars, ppc, received, lost, consumers, active_connections, wspc>>
    /\ UNCHANGED detectorVars

\* wait_for times out after 5 seconds without an entry: lines 48-53.
ConsumerTimeout ==
    /\ cpc = "get"
    /\ queue = <<>>
    /\ IF FlushOnTimeout(buffer)
       THEN Flush(buffer, "time")
       ELSE UNCHANGED <<cpc, buffer, idx, trigger, total_processed, trace, handed, upserted, bc>>
    /\ UNCHANGED <<startupVars, producerVars, consumers, active_connections, wspc>>
    /\ UNCHANGED detectorVars

\* The geofence query for vessel_batch[idx] answers (or raises): lines 78-86.
ConsumerCheck ==
    /\ cpc = "check"
    /\ LET v == buffer[idx] IN
       \E raises \in (IF pool = "open" THEN BOOLEAN ELSE {TRUE}) :
          LET violation == CheckGeofenceViolation(v.lat, v.lon, raises)
              m == AlertMessage(v, violation)
              tr == Append(trace, Checked(v, violation, raises))
          IN  IF violation = Raised
              THEN /\ cpc' = AfterConsumerError
                   /\ trace' = Append(trace, Raise(GeofenceQuery(v), <<v>>))
                   /\ buffer' = BufferAfterFlush(buffer, FALSE)
                   /\ UNCHANGED <<idx, total_processed, upserted, bc>>
              ELSE IF Truthy(violation)
              THEN IF active_connections = <<>>
                   THEN Resume(NextReport(idx, tr \o <<Call(m, <<v>>), Return(m, <<v>>)>>,
                                          buffer), buffer)
                   ELSE Resume([pc |-> "alert", idx |-> idx, send |-> TRUE,
                                trace |-> Append(tr, Call(m, <<v>>))], buffer)
              ELSE Resume(NextReport(idx, tr, buffer), buffer)
    /\ UsePool("ingestion")
    /\ UNCHANGED <<logic, attempt, pool, apiKey, producerVars, consumers, trigger, handed,
                   active_connections, wspc>>
    /\ UNCHANGED detectorVars

\* The gather of the consumer's broadcast is complete: manager.broadcast
\* returns into process_and_flush.
ConsumerBroadcastReturn ==
    /\ cpc \in {"alert", "update"}
    /\ bc["consumer"].on
    /\ bc["consumer"].pending = {}
    /\ LET last == trace[Len(trace)]
           tr == Append(trace, Return(last.msg, last.batch))
           r == IF cpc = "alert" THEN NextReport(idx, tr, buffer)
                ELSE Run(PhaseAfter("update"), 0, tr, buffer)
       IN  IF GatherOutcome(bc["consumer"]) = Raised
           THEN /\ cpc' = AfterConsumerError
                /\ trace' = Append(trace, Raise(last.msg, last.batch))
                /\ bc' = [bc EXCEPT !["consumer"] = Idle]
                /\ buffer' = BufferAfterFlush(buffer, FALSE)
                /\ UNCHANGED <<idx, total_processed, upserted>>
           ELSE
           /\ trace' = IF r.pc = "done" THEN <<>> ELSE r.trace
           /\ idx' = r.idx
           /\ upserted' = IF r.pc = "persist" THEN Bump(upserted, buffer) ELSE upserted
           /\ bc' = [bc EXCEPT !["consumer"] =
                        IF r.send THEN Broadcast(active_connections) ELSE Idle]
           /\ IF r.pc = "done"
              THEN /\ cpc' = "get"
                   /\ total_processed' = total_processed + Len(buffer)
                   /\ buffer' = BufferAfterFlush(buffer, TRUE)
              ELSE /\ cpc' = r.pc
                   /\ UNCHANGED <<total_processed, buffer>>
    /\ UNCHANGED <<startupVars, producerVars, consumers, trigger, handed,
                   active_connections, wspc>>
    /\ UNCHANGED detectorVars

\* repo.update_vessels_batch answers: it returns, or it raises out of
\* process_and_flush into the except of line 65.
ConsumerPersist ==
    /\ cpc = "persist"
    /\ LET m == UpsertCall(buffer) IN
       \E ok \in (IF pool = "open" THEN BOOLEAN ELSE {FALSE}) :
          IF ok
          THEN Resume(Run(PhaseAfter("persist"), 0, Append(trace, Return(m, buffer)), buffer),
                      buffer)
          ELSE /\ cpc' = AfterConsumerError
               /\ trace' = Append(trace, Raise(m, buffer))
               /\ buffer' = BufferAfterFlush(buffer, FALSE)
               /\ UNCHANGED <<idx, total_processed, upserted, bc>>
    /\ UsePool("ingestion")
    /\ UNCHANGED <<logic, attempt, pool, apiKey, producerVars, consumers, trigger, handed,
                   active_connections, wspc>>
    /\ UNCHANGED detectorVars

\* asyncio.sleep(1) of line 67 ends.
ConsumerWake ==
    /\ cpc = "sleep"
    /\ cpc' = "get"
    /\ trace' = <<>>
    /\ idx' = 0
    /\ UNCHANGED <<startupVars, producerVars, consumers, buffer, trigger,
                   total_processed, handed, upserted, hubVars>>
    /\ UNCHANGED detectorVars

\* ------------------------------------------------------------- detector
\* Units. The positions of vessel rows and alerts are in hundredths of a
\* degree; the arguments and the result of calculate_predicted_pos are in
\* units of 1e-7 degree, one digit below the 6 decimals it rounds to. Speeds
\* are in tenths of a knot, times in hours, courses in degrees.
Fine == 100000

\* speed < 0.5 (anomalies.py:45), in tenths of a knot.
MinSpeed == 5
\* dist < 0.1 (anomalies.py:120), in hundredths of a degree.
JamRadius == 10
\* len(nearby) >= 2 (anomalies.py:123).
MinNearby == 2
\* One tenth of a nautical mile is 1/600 degree of latitude (anomalies.py:54):
\* 50000 thirds of a unit.
ThirdsPerTenthMile == 50000

\* The integer nearest to n/d (d > 0), a half going to the even one.
RoundHalfEven(n, d) ==
    LET f == n \div d
        r == n % d
    IN  IF 2 * r < d THEN f
        ELSE IF 2 * r > d THEN f + 1
        ELSE IF f % 2 = 0 THEN f ELSE f + 1

\* round(x, 5): one decimal short.
Round5(n, d) == 100 * RoundHalfEven(n, 100 * d)

\* round(x, 6) of x = n/d units: the nearest multiple of 10 units.
Round6(n, d) == 10 * RoundHalfEven(n, 10 * d)

\* math.cos and math.sin of math.radians(course) at the quarter turns (where
\* the float is within 1e-15 of the whole number).
CosDeg(course) ==
    CASE course = 0 -> 1 [] course = 90 -> 0 [] course = 180 -> -1 [] course = 270 -> 0
SinDeg(course) ==
    CASE course = 0 -> 0 [] course = 90 -> 1 [] course = 180 -> 0 [] course = 270 -> -1

\* 1 / math.cos(math.radians(lat)) at the latitudes where it is whole.
SecLat(lat) ==
    CASE lat = 0 -> 1 [] lat = 60 * 100 * Fine -> 2

\* A threshold that lets only a speed of zero count as stationary.
StationaryZeroOnly(speed) == speed <= 0

\* if speed < 0.5
Stationary(speed) == speed < MinSpeed

\* AnomalyDetector.calculate_predicted_pos; now is datetime.now(timezone.utc).
\* d_lat and d_lon are in thirds of a unit; 0.0 divided by the (never zero)
\* cosine of the latitude is 0.0.
CalculatePredictedPos(lat, lon, speed, course, last_seen, now) ==
    IF Stationary(speed) THEN [lat |-> lat, lon |-> lon]
    ELSE LET hours_passed == now - last_seen
             dist_nm == speed * hours_passed
             d_lat == dist_nm * CosDeg(course) * ThirdsPerTenthMile
             d_lon == IF SinDeg(course) = 0 THEN 0
                      ELSE dist_nm * SinDeg(course) * SecLat(lat) * ThirdsPerTenthMile
         IN  [lat |-> Round6(3 * lat + d_lat, 3), lon |-> Round6(3 * lon + d_lon, 3)]

\* One entry of alerts (lines 99-109); the rows of the query all have the
\* course column.
Alert(v, now) ==
    [mmsi |-> v.mmsi, name |-> v.name, speed |-> v.speed, last_seen |-> v.last_seen,
     last_pos |-> [lat |-> v.lat, lon |-> v.lon],
     predicted_pos |-> CalculatePredictedPos(v.lat * Fine, v.lon * Fine, v.speed, v.course,
                                             v.last_seen, now)]

\* The alerts built back to front.
AlertsReversed(vessels, now) ==
    [i \in 1..Len(vessels) |-> Alert(vessels[Len(vessels) + 1 - i], now)]

\* The loop of lines 97-109.
Alerts(vessels, now) == [i \in 1..Len(vessels) |-> Alert(vessels[i], now)]

\* The square of dist (lines 118-119), and dist < 0.1.
DistSq(p, q) == (p.lat - q.lat) * (p.lat - q.lat) + (p.lon - q.lon) * (p.lon - q.lon)
Near(p, q) == DistSq(p, q) < JamRadius * JamRadius

\* The inner loop without "if i == j: continue".
PickedWithSelf(alerts, i, j) == Near(alerts[i].last_pos, alerts[j].last_pos)

\* Whether the inner loop appends a2 = alerts[j] to the nearby of alerts[i].
Picked(alerts, i, j) == j # i /\ Near(alerts[i].last_pos, alerts[j].last_pos)

\* nearby of alerts[i], from a2 = alerts[j] on (lines 114-121).
RECURSIVE NearbyFrom(_, _, _)
NearbyFrom(alerts, i, j) ==
    IF j > Len(alerts) THEN <<>>
    ELSE (IF Picked(alerts, i, j) THEN <<alerts[j].mmsi>> ELSE <<>>)
         \o NearbyFrom(alerts, i, j + 1)

\* clusters, from a1 = alerts[i] on (lines 112-128).
RECURSIVE ClustersFrom(_, _)
ClustersFrom(alerts, i) ==
    IF i > Len(alerts) THEN <<>>
    ELSE LET nearby == NearbyFrom(alerts, i, 1) IN
         (IF Len(nearby) >= MinNearby
          THEN <<[center |-> alerts[i].last_pos,
                  affected_mmsi |-> <<alerts[i].mmsi>> \o nearby,
                  type |-> "POTENTIAL_JAMMING_ZONE"]>>
          ELSE <<>>)
         \o ClustersFrom(alerts, i + 1)

\* The rows of the vessels table that a query may find inactive: three in
\* a row 0.014 degrees apart, one within 0.1 of all three, one within 0.1 of
\* the last two of these only, and one far off. No two are exactly 0.1 apart
\* (there the floats of the coordinates decide). They head north or south,
\* SecLat not being whole at their latitudes.
Vessel(mmsi, name, lat, lon, speed, course, last_seen) ==
    [mmsi |-> mmsi, name |-> name, lat |-> lat, lon |-> lon, speed |-> speed,
     course |-> course, last_seen |-> last_seen]

Fleet ==
    { Vessel("1", "S1", 5000, 1000, 100, 0, 1),
      Vessel("2", "S2", 5001, 1001, 100, 0, 1),
      Vessel("3", "S3", 5002, 1002, 100, 180, 0),
      Vessel("4", "S4", 5009, 1002, 4, 180, 0),
      Vessel("5", "S5", 5011, 1002, 200, 0, 0),
      Vessel("6", "S6", 5100, 2000, 0, 0, 1) }

\* What get_inactive_vessels may return: rows of distinct vessels (mmsi is
\* the key of the table), in any order.
QueryResults ==
    { s \in UNION {[1..n -> Fleet] : n \in 0..MaxVessels} :
        \A i \in 1..Len(s) : \A j \in 1..Len(s) : i # j => s[i].mmsi # s[j].mmsi }

\* The hours of the clock.
Clock == 1..2

\* The empty report as an object shared between calls, holding what an
\* earlier caller has appended to it.
NoAnomaliesStale ==
    [alerts |-> <<Alert(Vessel("1", "S1", 5000, 1000, 100, 0, 1), 1)>>, clusters |-> <<>>]

\* The report of lines 93-95.
NoAnomalies == [alerts |-> <<>>, clusters |-> <<>>]

\* AnomalyDetector.get_enhanced_anomalies on the rows of the query.
GetEnhancedAnomalies(vessels, now) ==
    IF vessels = <<>> THEN NoAnomalies
    ELSE LET alerts == Alerts(vessels, now)
         IN  [alerts |-> alerts, clusters |-> ClustersFrom(alerts, 1)]

\* The calls of calculate_predicted_pos that get_enhanced_anomalies makes.
PredictionCalls(vessels) == IF vessels = <<>> THEN 0 ELSE Len(vessels)

\* The arguments calculate_predicted_pos is tried on: positions with 6 and
\* with 7 decimals, speeds on both sides of 0.5 knots, the quarter-turn
\* courses (east and west only where SecLat is whole).
Fixes ==
    { f \in [lat : {0, 60 * 100 * Fine, 60 * 100 * Fine + 4},
             lon : {10 * 100 * Fine, 10 * 100 * Fine + 4},
             speed : {0, 4, 5, 200},
             course : {0, 90, 180, 270},
             last_seen : {0, 1},
             now : Clock] :
        f.course \in {90, 270} => f.lat \in {0, 60 * 100 * Fine} }

\* analyze_maritime_security: get_enhanced_anomalies(threshold_min) with the
\* rows the query returns at hour now. The detector keeps nothing between
\* two calls, so a run makes one.
Analyze(rows, now) ==
    /\ called = {}
    /\ called' = called \cup {"analyze"}
    /\ inactive' = rows
    /\ report' = GetEnhancedAnomalies(rows, now)
    /\ predictions' = PredictionCalls(rows)
    /\ UNCHANGED <<fix, predicted>>
    /\ UNCHANGED <<startupVars, producerVars, consumerVars, hubVars>>

\* A call of calculate_predicted_pos.
Predict(f) ==
    /\ called = {}
    /\ called' = called \cup {"predict"}
    /\ fix' = f
    /\ predicted' = CalculatePredictedPos(f.lat, f.lon, f.speed, f.course, f.last_seen, f.now)
    /\ UNCHANGED <<inactive, report, predictions>>
    /\ UNCHANGED <<startupVars, producerVars, consumerVars, hubVars>>

\* The detector on its own.
NextDetector ==
    \/ \E rows \in QueryResults : \E now \in Clock : Analyze(rows, now)
    \/ \E f \in Fixes : Predict(f)

DetectorSpec == Init /\ [][NextDetector]_vars

\* ------------------------------------------------------------- system
\* run_logic with the ingestion pipeline and the clients of /ws.
Next ==
    \/ WaitForDbAttempt
    \/ WaitForDbGiveUp
    \/ RepoInitialize
    \/ IngestionStart
    \/ FeedConnect
    \/ \E msg \in FeedMessages : FeedMessage(msg)
    \/ FeedClosed
    \/ FeedBackoff
    \/ \E c \in Conns : WsConnect(c)
    \/ \E c \in Conns : WsDisconnect(c)
    \/ \E k \in Callers : \E i \in 1..MaxConns : BroadcastSend(k, i)
    \/ ConsumerGet
    \/ ConsumerTimeout
    \/ ConsumerCheck
    \/ ConsumerBroadcastReturn
    \/ ConsumerPersist
    \/ ConsumerWake

Spec == Init /\ [][Next]_vars

\* The servers that start_all gathers with run_logic: the HTTP endpoints, the
\* MCP tools and /ws, running while run_logic starts up.
NextApi ==
    \/ WaitForDbAttempt
    \/ WaitForDbGiveUp
    \/ RepoInitialize
    \/ GetVessels
    \/ McpTool
    \/ \E c \in Conns : WsConnect(c)
    \/ \E c \in Conns : WsDisconnect(c)
    \/ \E k \in Callers : \E i \in 1..MaxConns : BroadcastSend(k, i)
    \/ \E k \in ForceAlarmRequests : ForceAlarm(k)
    \/ \E k \in ForceAlarmRequests : ForceAlarmReturn(k)

ApiSpec == Init /\ [][NextApi]_vars

\* ------------------------------------------------------------- helpers
Range(s) == {s[i] : i \in 1..Len(s)}
InQueue(i) == \E j \in 1..Len(queue) : queue[j].id = i
InBuffer(i) == \E j \in 1..Len(buffer) : buffer[j].id = i

\* A report that has its identifier and both coordinates.
Complete(v) == Truthy(v.mmsi) /\ v.lat # None /\ v.lon # None

\* The reports that the entries of trace carry.
Carried == UNION {Range(trace[i].batch) : i \in 1..Len(trace)}

\* The place of a call in process_and_flush: alerts, map broadcast, upsert.
Rank(type) ==
    CASE type = "GEOFENCE" -> 1
      [] type = "ALERT" -> 1
      [] type = "VESSEL_UPDATE" -> 2
      [] OTHER -> 3

\* ------------------------------------------------------------- C1
\* C1 (as claimed): a report whose identifier is missing or empty, or whose
\* latitude or longitude is null, is never on the queue, so never in the
\* consumer's buffer, in a broadcast or in a batch-upsert. The code tests the
\* identifier and the latitude only: a report with a null longitude gets in.
C1_IncompleteNeverIngested ==
    /\ \A v \in Range(queue) : Complete(v)
    /\ \A v \in Range(buffer) : Complete(v)
    /\ \A v \in Carried : Complete(v)

\* ------------------------------------------------------------- C2
\* C2: the queue never holds more than its capacity, and a report that
\* passes the test of line 135 while the queue is full is dropped: the queue
\* is left as it was, the loss is logged and the producer stays in its
\* receive loop.
C2_DropOnFull ==
    /\ [](Len(queue) <= QueueMaxSize)
    /\ [][\A msg \in FeedMessages :
             ( /\ FeedMessage(msg)
               /\ ~NormalizeRaises(msg)
               /\ Accepted(VesselData(msg, received + 1))
               /\ Len(queue) = QueueMaxSize )
             => (queue' = queue /\ ppc' = "recv" /\ lost' = lost + 1)]_vars

\* A report has been dropped at a full queue and the producer reads on.
C2_Witness == lost > 0 /\ Len(queue) = QueueMaxSize /\ ppc = "recv"

\* ------------------------------------------------------------- C3
\* C3 (as claimed): a batch whose processing failed is discarded, so no
\* report is handed to process_and_flush more than once and no report is in
\* more than one batch-upsert call. The code skips buffer.clear() when
\* process_and_flush raises, so the next flush holds the same reports again.
C3_FailedBatchDiscarded ==
    \A i \in Ids : handed[i] <= 1 /\ upserted[i] <= 1

\* ------------------------------------------------------------- C4
\* C4: in one process_and_flush call every ALERT broadcast has returned
\* before the VESSEL_UPDATE broadcast is started, and that one has returned
\* before the batch-upsert is issued: the calls of trace are in the order of
\* the sections, each broadcast call is directly followed by its return, and
\* no broadcast of the consumer is in flight once the upsert is issued.
C4_AlertsThenUpdateThenUpsert ==
    /\ \A i \in 1..Len(trace) : \A j \in 1..Len(trace) :
          i < j => Rank(trace[i].msg.type) <= Rank(trace[j].msg.type)
    /\ \A i \in 1..Len(trace) :
          (trace[i].ev = "call" /\ trace[i].msg.type \in {"ALERT", "VESSEL_UPDATE"}
             /\ i < Len(trace))
          => trace[i + 1] = Return(trace[i].msg, trace[i].batch)
    /\ (bc["consumer"].on /\ trace # <<>>)
          => trace[Len(trace)].ev = "call" /\ cpc \in {"alert", "update"}
    /\ cpc = "persist"
          => /\ ~bc["consumer"].on
             /\ Len(trace) >= 3
             /\ trace[Len(trace)] = Call(UpsertCall(buffer), buffer)
             /\ trace[Len(trace) - 1] = Return(UpdateMessage(buffer), buffer)
             /\ trace[Len(trace) - 2] = Call(UpdateMessage(buffer), buffer)

\* The upsert is issued after an alert and the map update went out to a
\* registered client.
C4_Witness ==
    /\ cpc = "persist"
    /\ \E i \in 1..Len(trace) : trace[i].ev = "call" /\ trace[i].msg.type = "ALERT"
    /\ active_connections # <<>>
    /\ total_processed > 0

\* ------------------------------------------------------------- C5
\* The connections a broadcast in flight was dispatched to, and whether the
\* clients have left the registered list alone since the dispatch.
Targets(b) == Range(b.tasks)
Sent(b) == {b.tasks[i] : i \in (1..Len(b.tasks)) \ b.pending}
NoChurn(b) ==
    \A c \in Conns :
       IF c \in Targets(b) THEN wspc[c] = "recv" ELSE ~Contains(active_connections, c)

\* C5: of the connections a broadcast was dispatched to, each one whose send
\* has failed is no longer registered and each other one got the message and
\* is still registered (unless its own client has disconnected); once all
\* sends are done and no client came or went, the registered connections
\* are those of the dispatch minus exactly the failed ones; and no
\* broadcast raises into process_and_flush.
C5_FailedSendsUnregistered ==
    /\ \A k \in Callers : bc[k].on =>
          /\ bc[k].failed \cap bc[k].delivered = {}
          /\ bc[k].failed \cup bc[k].delivered = Sent(bc[k])
          /\ \A c \in bc[k].failed : ~Contains(active_connections, c)
          /\ \A c \in Targets(bc[k]) \ bc[k].failed :
                Contains(active_connections, c) \/ wspc[c] = "closed"
          /\ (bc[k].pending = {} /\ NoChurn(bc[k]))
                => Range(active_connections) = Targets(bc[k]) \ bc[k].failed
    /\ \A i \in 1..Len(trace) :
          trace[i].ev = "raise" => trace[i].msg.type \notin {"ALERT", "VESSEL_UPDATE"}

\* A broadcast to two connections is complete: one send failed, the other
\* connection got the message and is the only one still registered.
C5_Witness ==
    /\ bc["consumer"].on
    /\ bc["consumer"].pending = {}
    /\ Len(bc["consumer"].tasks) >= 2
    /\ Cardinality(bc["consumer"].failed) = 1
    /\ bc["consumer"].delivered = Targets(bc["consumer"]) \ bc["consumer"].failed
    /\ Range(active_connections) = bc["consumer"].delivered

\* ------------------------------------------------------------- C6
\* C6 (as claimed): when the wait for an entry times out on a non-empty
\* buffer of fewer than batch_size reports, the whole buffer is handed to
\* process_and_flush, and when that call ends the buffer is empty. The
\* second part fails when the call ends by raising (see C3).
C6_TimeoutFlushEmptiesBuffer ==
    /\ [][(ConsumerTimeout /\ buffer # <<>> /\ Len(buffer) < BatchSize)
            => (Flushing' /\ trigger' = "time" /\ buffer' = buffer
                  /\ handed' = Bump(handed, buffer))]_vars
    /\ [][(Flushing /\ ~Flushing' /\ trigger = "time" /\ Len(buffer) < BatchSize)
            => buffer' = <<>>]_vars

\* ------------------------------------------------------------- C7
\* C7 (as claimed): the consumer never waits for a further entry while it
\* holds batch_size reports or more, and when a size-triggered flush ends
\* the buffer is empty. Both fail after a flush that raised (see C3).
C7_SizeFlushBeforeNextGet ==
    /\ [](cpc = "get" => Len(buffer) < BatchSize)
    /\ [][(Flushing /\ ~Flushing' /\ trigger = "size") => buffer' = <<>>]_vars

\* ------------------------------------------------------------- C8
\* The event loop keeps running the consumer: its timers fire, its awaited
\* calls answer (or raise), and the sends of its broadcasts end.
ConsumerStep ==
    \/ ConsumerGet
    \/ ConsumerTimeout
    \/ ConsumerCheck
    \/ ConsumerBroadcastReturn
    \/ ConsumerPersist
    \/ ConsumerWake

\* The two daemons of start_ais_ingestion with a single client on /ws.
NextDaemons ==
    \/ WaitForDbAttempt
    \/ WaitForDbGiveUp
    \/ RepoInitialize
    \/ IngestionStart
    \/ FeedConnect
    \/ \E msg \in FeedMessages : FeedMessage(msg)
    \/ FeedClosed
    \/ FeedBackoff
    \/ WsConnect(1)
    \/ WsDisconnect(1)
    \/ BroadcastSend("consumer", 1)
    \/ ConsumerStep

FairSpec ==
    /\ Init
    /\ [][NextDaemons]_vars
    /\ WF_vars(ConsumerStep)
    /\ WF_vars(BroadcastSend("consumer", 1))

\* C8: an exception in process_and_flush does not end db_writer: from its
\* sleep the consumer is back at queue.get(), and every report that is on
\* the queue at or after a failed flush is handed to process_and_flush.
C8_ConsumerOutlivesFailure ==
    /\ [](cpc \in {"off", "get", "check", "alert", "update", "persist", "sleep"})
    /\ (cpc = "sleep") ~> (cpc = "get")
    /\ \A i \in Ids :
          [](cpc = "sleep" => [](InQueue(i) => <>(handed[i] > 0)))

\* A flush has failed and was repeated, and a report that came later has
\* been flushed with it.
C8_Witness ==
    /\ cpc = "get"
    /\ buffer = <<>>
    /\ \E i \in Ids : \E j \in Ids : j < i /\ handed[j] = 2 /\ handed[i] = 1

\* ------------------------------------------------------------- C9
IsChecked(e) == e.ev = "checked"

\* C9: a geofence query that raises yields None: no exception leaves section
\* A, no ALERT follows for that report (the next entry is the check of the
\* next report, or the map broadcast), and once section A is over every
\* report of the batch has been checked, in batch order, and the map
\* broadcast and the upsert are called with the whole batch.
C9_GeofenceFailsOpen ==
    /\ \A i \in 1..Len(trace) : trace[i].ev = "raise" => trace[i].msg.type = "UPSERT"
    /\ \A i \in 1..Len(trace) :
          (IsChecked(trace[i]) /\ trace[i].msg.failed)
          => /\ trace[i].msg.data = None
             /\ i < Len(trace)
                  => \/ IsChecked(trace[i + 1])
                     \/ trace[i + 1] = Call(UpdateMessage(buffer), buffer)
             /\ i = Len(trace) => cpc = "check"
    /\ cpc \in {"update", "persist"}
          => LET checks == SelectSeq(trace, IsChecked) IN
             /\ Len(checks) = Len(buffer)
             /\ \A j \in 1..Len(buffer) : checks[j].batch = <<buffer[j]>>
             /\ \E i \in 1..Len(trace) : trace[i] = Call(UpdateMessage(buffer), buffer)
    /\ cpc = "persist" => trace[Len(trace)] = Call(UpsertCall(buffer), buffer)

\* The upsert is issued for a batch whose first report lies in a geofence
\* and had its query fail, with a later report checked after it.
C9_Witness ==
    /\ cpc = "persist"
    /\ Len(buffer) >= 2
    /\ IsChecked(trace[1]) /\ trace[1].msg.failed
    /\ ZoneAt(buffer[1].lat, buffer[1].lon) # None
    /\ IsChecked(trace[2])
    /\ active_connections # <<>>

\* ------------------------------------------------------------- C10
\* C10 (as claimed): nobody uses the pool before repo.initialize() has
\* opened it. The HTTP and MCP servers are gathered with run_logic and
\* answer requests while wait_for_db is still retrying.
C10_PoolOpenBeforeAnyQuery == earlyQuery = None

\* ------------------------------------------------------------- C11
\* The daemons with a single client on /ws, and the shutdown of run_logic.
NextShutdown ==
    \/ NextDaemons
    \/ RunLogicCancelled
    \/ RepoClose
    \/ LoopTeardown

ShutdownSpec == Init /\ [][NextShutdown]_vars

\* The consumer issues a geofence query or a batch-upsert in this step.
QueryIssued ==
    \/ cpc' = "check" /\ (cpc # "check" \/ idx' # idx)
    \/ cpc' = "persist" /\ cpc # "persist"

\* C11 (as claimed): when run_logic has shut down, the pool is closed and
\* both the producer and the consumer are stopped (the buffer is no longer
\* processed), and once the pool is closed the consumer issues no geofence
\* query and no batch-upsert. The code cancels the producer only: db_writer
\* lives on and goes on flushing against the closed pool.
C11_ShutdownStopsBothTasks ==
    /\ [](logic = "stopped"
            => /\ pool = "closed"
               /\ ppc \in {"off", "cancelled"}
               /\ cpc \in {"off", "cancelled"})
    /\ [][pool = "closed" => ~QueryIssued]_vars

\* ------------------------------------------------------------- C12
\* C12 (as claimed): the producer task never ends; whenever it loses the
\* feed connection (while connecting, or in its receive loop by a disconnect
\* or an exception) it goes to its 5-second sleep, and from the sleep to
\* connect and subscribe again, without a limit on the retries. The code
\* sleeps only in its except branch: when the feed closes the connection
\* normally the async for just ends and the loop reconnects at once.
C12_BackoffBeforeReconnect ==
    /\ [](ppc \in {"off", "start", "connect", "recv", "backoff"})
    /\ [][(ppc = "recv" /\ ppc' # "recv") => ppc' = "backoff"]_vars
    /\ [][(ppc = "connect" /\ ppc' # "connect") => ppc' \in {"recv", "backoff"}]_vars
    /\ [][(ppc = "backoff" /\ ppc' # "backoff") => ppc' = "connect"]_vars
    /\ [][(ppc' = "recv" /\ ppc # "recv") => ppc = "connect"]_vars

\* ------------------------------------------------------------- C13
\* The reports of a list are in the order they were received in.
Ordered(s) == \A i \in 1..Len(s) : \A j \in 1..Len(s) : i < j => s[i].id < s[j].id

\* C13: one db_writer task is created, however often the producer
\* reconnects; the calls of the running flush all hold the one batch that is
\* in processing, with a single upsert; the queue and the buffer keep the
\* reports in the order of their acceptance, the buffer ahead of the queue;
\* so of two accepted reports (all of the one vessel of the feed) the later
\* one is in no batch-upsert while the earlier one still waits for its own.
C13_SingleSequentialConsumer ==
    /\ consumers <= 1
    /\ (cpc # "off" \/ ppc \in {"connect", "recv", "backoff"}) => consumers = 1
    /\ \A i \in 1..Len(trace) :
          trace[i].msg.type \in {"VESSEL_UPDATE", "UPSERT"} => trace[i].batch = buffer
    /\ Cardinality({i \in 1..Len(trace) :
                       trace[i].ev = "call" /\ trace[i].msg.type = "UPSERT"}) <= 1
    /\ Ordered(queue)
    /\ Ordered(buffer)
    /\ \A i \in 1..Len(buffer) : \A j \in 1..Len(queue) : buffer[i].id < queue[j].id
    /\ \A i \in Ids : \A j \in Ids :
          (i < j /\ upserted[j] > 0 /\ (InQueue(i) \/ InBuffer(i))) => upserted[i] > 0

\* The upsert of a second batch is issued while the producer is between two
\* connections: the earlier report went out in a batch of its own.
C13_Witness ==
    /\ consumers = 1
    /\ cpc = "persist"
    /\ ppc \in {"backoff", "connect"}
    /\ \E i \in Ids : \E j \in Ids :
          i < j /\ upserted[i] > 0 /\ ~InBuffer(i) /\ InBuffer(j) /\ upserted[j] > 0

\* ------------------------------------------------------------- C14
\* The event loop keeps running wait_for_db: each connection attempt ends,
\* and so does the sleep after a failed one.
StartupFairSpec ==
    /\ Init
    /\ [][NextDaemons]_vars
    /\ WF_vars(WaitForDbAttempt \/ WaitForDbGiveUp)

\* C14: wait_for_db ends: it never counts more than max_retries failed
\* attempts; each step of it is a failed attempt that is counted, the return
\* at an attempt that connects (one of the first max_retries), or the raise
\* after max_retries failures; once it has raised, run_logic is over for
\* good, the pool is never opened and neither the producer nor the consumer
\* is ever started.
C14_WaitForDbTerminates ==
    /\ [](attempt <= max_retries)
    /\ [][logic = "wait_for_db"
            => \/ logic' = "wait_for_db" /\ attempt' = attempt + 1
               \/ logic' = "initialize" /\ attempt < max_retries
               \/ logic' = "fatal" /\ attempt = max_retries]_<<logic, attempt>>
    /\ [](logic = "fatal"
            => /\ attempt = max_retries
               /\ pool = "unopened"
               /\ ppc = "off" /\ cpc = "off" /\ consumers = 0)
    /\ [][logic = "fatal" => logic' = "fatal"]_vars
    /\ <>(logic # "wait_for_db")

\* The tenth attempt has failed and wait_for_db has raised.
C14_Witness == logic = "fatal" /\ attempt = max_retries /\ pool = "unopened"

\* ------------------------------------------------------------- C15
\* The other rows of the query within 0.1 degrees of row i, the rows that
\* have two such neighbours or more, and the k-th of these in query order.
Neighbours(i) ==
    {j \in (1..Len(inactive)) \ {i} :
        (inactive[i].lat - inactive[j].lat) * (inactive[i].lat - inactive[j].lat)
        + (inactive[i].lon - inactive[j].lon) * (inactive[i].lon - inactive[j].lon) < 100}
Crowded == {i \in 1..Len(inactive) : Cardinality(Neighbours(i)) >= 2}
CrowdedAt(k) == CHOOSE i \in Crowded : Cardinality({h \in Crowded : h < i}) = k - 1
Members(c) == {c.affected_mmsi[m] : m \in 1..Len(c.affected_mmsi)}

C16_EmptyQueryEmptyReport ==
    ("analyze" \in called /\ inactive = <<>>)
       => /\ report.alerts = <<>>
          /\ report.clusters = <<>>
          /\ predictions = 0

\* The analysis has run on an empty query result.
C16_Witness == "analyze" \in called /\ inactive = <<>> /\ report.alerts = <<>>

\* ------------------------------------------------------------- C17
\* C17: the alerts of the report are the rows of the query, one each and in
\* the order of the query, with the row's identifier and last position; two
\* vessels more than 0.1 degrees apart give 2 alerts and no cluster.
C17_OneAlertPerInactiveVessel ==
    "analyze" \in called =>
       /\ Len(report.alerts) = Len(inactive)
       /\ \A i \in 1..Len(inactive) :
             /\ report.alerts[i].mmsi = inactive[i].mmsi
             /\ report.alerts[i].last_pos = [lat |-> inactive[i].lat, lon |-> inactive[i].lon]
       /\ (Len(inactive) = 2 /\ Neighbours(1) = {})
             => Len(report.alerts) = 2 /\ report.clusters = <<>>

\* The analysis has run on two vessels that are more than 0.1 degrees apart.
C17_Witness ==
    /\ "analyze" \in called
    /\ Len(inactive) = 2
    /\ Neighbours(1) = {}
    /\ Len(report.alerts) = 2

\* ------------------------------------------------------------- C18
\* C18: below 0.5 knots the prediction is the position it was given, digit
\* for digit, whatever the course, the last-seen time and the clock.
C18_SlowVesselStaysPut ==
    ("predict" \in called /\ fix.speed < 5)
       => predicted = [lat |-> fix.lat, lon |-> fix.lon]

\* A prediction for a vessel at 0.4 knots, heading north, last seen two hours
\* ago at a position with 7 decimals.
C18_Witness ==
    /\ "predict" \in called
    /\ fix.speed = 4
    /\ fix.course = 0
    /\ fix.now - fix.last_seen = 2
    /\ fix.lat % 10 # 0
    /\ predicted.lat = fix.lat

\* ------------------------------------------------------------- C19
\* p is the value n/3 units rounded to 6 decimals (a multiple of 10 units,
\* no more than half of the sixth decimal away).
IsRounded6(p, n) ==
    /\ p % 10 = 0
    /\ 2 * (3 * p - n) <= 30
    /\ 2 * (n - 3 * p) <= 30

\* The latitude that a vessel on course 0 gains, in thirds of a unit: speed
\* times elapsed hours over 60, in degrees.
Gain == fix.speed * (fix.now - fix.last_seen) * 50000

Malformed(msg) ==
    \/ msg.MetaData # "dict"
    \/ ~Truthy(Get(msg, "MMSI", None))
    \/ Get(msg, "latitude", None) = None
    \/ Get(msg, "longitude", None) = None

\* C20 (as claimed): a malformed message is dropped without a trace: nothing
\* is queued, nothing is logged as lost, and the producer stays in the
\* receive loop of the same connection. The code raises on MetaData: null
\* (and on ShipName: null), which ends the connection and sends the producer
\* into its 5-second sleep; and it queues a report without longitude (C1).
C20_MalformedSilentlyDropped ==
    [][\A msg \in FeedMessages :
          (FeedMessage(msg) /\ Malformed(msg))
          => (ppc' = "recv" /\ queue' = queue /\ lost' = lost)]_vars

\* ------------------------------------------------------------- C21
IsAlertCall(e) == e.ev = "call" /\ e.msg.type = "ALERT"

\* C21: in one process_and_flush call the reports are checked one by one in
\* batch order; a check that returns a zone is directly followed by one ALERT
\* broadcast whose data is that zone and whose vessel is the report's name,
\* a check that returns None is followed by none, and there is no other
\* ALERT: the ALERT broadcasts are those of the violating reports, in batch
\* order.
C21_OneAlertPerViolation ==
    LET checks == SelectSeq(trace, IsChecked)
        alerts == SelectSeq(trace, IsAlertCall)
        hits == SelectSeq(checks, LAMBDA e : e.msg.data # None)
    IN  /\ Len(checks) <= Len(buffer)
        /\ \A j \in 1..Len(checks) : checks[j].batch = <<buffer[j]>>
        /\ \A i \in 1..Len(trace) :
              IsChecked(trace[i]) =>
                 IF trace[i].msg.data # None
                 THEN /\ i < Len(trace)
                      /\ trace[i + 1] =
                            [ev |-> "call", batch |-> trace[i].batch,
                             msg |-> [type |-> "ALERT", data |-> trace[i].msg.data,
                                      vessel |-> trace[i].batch[1].name]]
                 ELSE i < Len(trace) => ~IsAlertCall(trace[i + 1])
        /\ \A i \in 1..Len(trace) :
              IsAlertCall(trace[i]) => i > 1 /\ IsChecked(trace[i - 1])
        /\ Len(alerts) = Len(hits)
        /\ \A j \in 1..Len(alerts) : alerts[j].batch = hits[j].batch
        /\ cpc \in {"update", "persist"} => Len(checks) = Len(buffer)

\* Section A is over for a batch of two reports: the first one lies outside
\* every zone and got no alert, the second one lies in a zone and got the
\* only alert, sent to a registered client.
C21_Witness ==
    /\ cpc = "update"
    /\ Len(buffer) = 2
    /\ ZoneAt(buffer[1].lat, buffer[1].lon) = None
    /\ Len(SelectSeq(trace, IsAlertCall)) = 1
    /\ \E i \in 1..Len(trace) : IsAlertCall(trace[i]) /\ trace[i].batch = <<buffer[2]>>
    /\ active_connections # <<>>

\* ------------------------------------------------------------- C22
IsUpdateCall(e) == e.ev = "call" /\ e.msg.type = "VESSEL_UPDATE"
IsUpsertCall(e) == e.ev = "call" /\ e.msg.type = "UPSERT"

\* C22: a process_and_flush call makes at most one VESSEL_UPDATE broadcast
\* and at most one batch-upsert call, each carrying the reports of the batch,
\* all of them and in batch order; the call returns only out of the upsert,
\* and when it returns it has made exactly one of each and the consumer
\* counts the whole batch as processed.
C22_OneUpdateOneUpsertWholeBatch ==
    /\ [](LET updates == SelectSeq(trace, IsUpdateCall)
              upserts == SelectSeq(trace, IsUpsertCall)
          IN  /\ Len(updates) <= 1
              /\ Len(upserts) <= 1
              /\ \A j \in 1..Len(updates) :
                    updates[j].msg = [type |-> "VESSEL_UPDATE", data |-> buffer]
              /\ \A j \in 1..Len(upserts) :
                    upserts[j].msg = [type |-> "UPSERT", data |-> buffer]
              /\ cpc = "persist" => Len(updates) = 1 /\ Len(upserts) = 1)
    /\ [][(Flushing /\ cpc' = "get")
            => /\ cpc = "persist"
               /\ Len(SelectSeq(trace, IsUpdateCall)) = 1
               /\ Len(SelectSeq(trace, IsUpsertCall)) = 1
               /\ buffer # <<>>
               /\ total_processed' = total_processed + Len(buffer)]_vars

\* A batch of two reports has been processed at the first attempt: each of
\* the two was handed over once and upserted once, and a client is registered.
C22_Witness ==
    /\ cpc = "get"
    /\ buffer = <<>>
    /\ total_processed = 2
    /\ Cardinality({i \in Ids : handed[i] = 1 /\ upserted[i] = 1}) = 2
    /\ \A i \in Ids : handed[i] <= 1
    /\ active_connections # <<>>

\* ------------------------------------------------------------- C23
\* The consumer waits at queue.get() with nothing queued and nothing buffered.
IdleConsumer == consumers > 0 /\ cpc = "get" /\ queue = <<>> /\ buffer = <<>>

\* C23: when the wait for an entry times out on an empty buffer, nothing
\* happens: the consumer stays at queue.get(), process_and_flush is not
\* called (no geofence check, no broadcast, no upsert), and the queue, the
\* buffer, the counters and the registered connections are as they were.
C23_EmptyTimeoutIsNoOp ==
    [][(IdleConsumer /\ ConsumerStep)
         => UNCHANGED <<consumerVars, queue, hubVars, pool, earlyQuery>>]_vars

\* The timeout can fire on an empty buffer: a batch has been flushed, the
\* queue is empty again and a client is registered.
C23_Witness ==
    /\ IdleConsumer
    /\ total_processed > 0
    /\ active_connections # <<>>
    /\ ppc = "recv"

\* ------------------------------------------------------------- C24
\* The connections that broadcast k has tried to send to.
Tried(b) == b.failed \cup b.delivered

\* C24: a broadcast call makes its sends for the connections that are
\* registered when it is dispatched, one send each: the list of sends names
\* no connection twice and does not change while sends are outstanding, every
\* send goes to a connection of the list that has had no send of this call
\* yet, and when all sends are done each connection of the list has had
\* exactly one. A connection that registers while the sends are in flight is
\* not in the list and gets no send of this call.
C24_OneSendPerRegisteredConnection ==
    /\ [](\A k \in Callers : bc[k].on =>
            /\ \A i \in 1..Len(bc[k].tasks) : \A j \in 1..Len(bc[k].tasks) :
                  bc[k].tasks[i] = bc[k].tasks[j] => i = j
            /\ Tried(bc[k]) = Sent(bc[k])
            /\ Cardinality(Tried(bc[k])) = Len(bc[k].tasks) - Cardinality(bc[k].pending)
            /\ bc[k].pending = {} => Tried(bc[k]) = Targets(bc[k]))
    /\ [][\A k \in Callers :
            /\ (~bc[k].on /\ bc'[k].on)
                 => bc'[k].tasks = active_connections /\ Tried(bc'[k]) = {}
            /\ (bc[k].on /\ bc[k].pending # {})
                 => /\ bc'[k].on
                    /\ bc'[k].tasks = bc[k].tasks
                    /\ Tried(bc[k]) \subseteq Tried(bc'[k])
                    /\ Cardinality(Tried(bc'[k]) \ Tried(bc[k])) <= 1
            /\ \A c \in Conns :
                  (bc[k].on /\ WsConnect(c)) => c \notin Targets(bc'[k])]_vars

\* A connection registered while a broadcast was in flight; the broadcast is
\* complete, the earlier connection got its one send and the later one none.
C24_Witness ==
    \E k \in ForceAlarmRequests :
       /\ bc[k].on
       /\ bc[k].pending = {}
       /\ Len(bc[k].tasks) = 1
       /\ bc[k].delivered = Targets(bc[k])
       /\ Len(active_connections) = 2

\* ------------------------------------------------------------- C25
\* The two daemons with the clients of /ws: the clients register and stay,
\* so a connection leaves the registered list only by a failed send.
NextFlush ==
    \/ WaitForDbAttempt
    \/ RepoInitialize
    \/ IngestionStart
    \/ FeedConnect
    \/ \E msg \in FeedMessages : FeedMessage(msg)
    \/ \E c \in Conns : WsConnect(c)
    \/ \E i \in 1..MaxConns : BroadcastSend("consumer", i)
    \/ ConsumerStep

\* The event loop keeps running the consumer and every send of a gather.
FlushFairSpec ==
    /\ Init
    /\ [][NextFlush]_vars
    /\ WF_vars(ConsumerStep)
    /\ WF_vars(\E i \in 1..MaxConns : BroadcastSend("consumer", i))

\* C25: whatever the sends of the ALERT and VESSEL_UPDATE broadcasts of a
\* flush do, the flush goes on with the same batch: when an ALERT broadcast
\* is over section A continues or the map broadcast or the upsert follows,
\* when the VESSEL_UPDATE broadcast is over the upsert is issued with the
\* whole batch, and a flush that has started reaches its upsert.
C25_UpsertWhateverTheSendsDo ==
    /\ [][(cpc = "alert" /\ cpc' # "alert")
            => cpc' \in {"check", "update", "persist"} /\ buffer' = buffer]_vars
    /\ [][(cpc = "update" /\ cpc' # "update")
            => /\ cpc' = "persist"
               /\ buffer' = buffer
               /\ trace'[Len(trace')] =
                     [ev |-> "call", batch |-> buffer,
                      msg |-> [type |-> "UPSERT", data |-> buffer]]]_vars
    /\ (cpc \in {"check", "alert", "update"}) ~> (cpc = "persist")

\* The upsert is issued for a batch of two reports after both registered
\* clients failed a send of this flush: one during an ALERT broadcast, the
\* other during a later broadcast.
C25_Witness ==
    /\ cpc = "persist"
    /\ Len(buffer) = 2
    /\ \A c \in 1..2 : wspc[c] = "recv"
    /\ active_connections = <<>>
    /\ \E i \in 1..Len(trace) : IsAlertCall(trace[i])
    /\ trace[Len(trace) - 1] = Return(UpdateMessage(buffer), buffer)

\* ------------------------------------------------------------- C26
\* C26 (as claimed): the buffer of the consumer never holds more than
\* batch_size reports, after a failed flush as well, so every batch handed to
\* process_and_flush has between 1 and batch_size reports. After a flush
\* that raised the buffer is not cleared (see C3) and the next entry is
\* appended to it.
C26_BufferAtMostBatchSize ==
    /\ Len(buffer) <= BatchSize
    /\ Flushing => (1 <= Len(buffer) /\ Len(buffer) <= BatchSize)

\* ------------------------------------------------------------- C27
\* C27: while the consumer keeps being scheduled, every report that is on
\* the queue or in the buffer of the consumer is handed to process_and_flush
\* at some time (by the size trigger or by the timeout).
C27_AcceptedEventuallyFlushed ==
    \A i \in Ids : (InQueue(i) \/ InBuffer(i)) ~> (handed[i] > 0)

\* A report that sat alone in the buffer was handed over by the timeout.
C27_Witness ==
    /\ Flushing
    /\ trigger = "time"
    /\ Len(buffer) < BatchSize
    /\ \A j \in 1..Len(buffer) : handed[buffer[j].id] = 1

\* ------------------------------------------------------------- C28
Registered(c) == Contains(active_connections, c)

\* A send of some broadcast to connection c fails in this step.
SendFails(c) == \E k \in Callers : c \in bc'[k].failed \ bc[k].failed

\* C28: the registered list never names a connection twice, and it holds
\* the connections that have connected and have since neither been
\* disconnected nor failed a send: a connection is registered by its connect
\* and by nothing else, it is unregistered by its disconnect and by a failed
\* send to it and by nothing else, each of these leaves the other
\* connections as they are, and a disconnect (by the endpoint or by a failed
\* send) of a connection that is not registered leaves the list unchanged.
C28_RegisteredSetExact ==
    /\ [](/\ \A i \in 1..Len(active_connections) : \A j \in 1..Len(active_connections) :
                active_connections[i] = active_connections[j] => i = j
          /\ \A c \in Conns : Registered(c) => wspc[c] = "recv")
    /\ [][\A c \in Conns :
            /\ (~Registered(c) /\ Registered(c)') => (wspc[c] = "idle" /\ wspc'[c] = "recv")
            /\ (wspc[c] = "idle" /\ wspc'[c] = "recv") => Registered(c)'
            /\ (Registered(c) /\ ~Registered(c)')
                  => ((wspc[c] = "recv" /\ wspc'[c] = "closed") \/ SendFails(c))
            /\ (wspc[c] = "recv" /\ wspc'[c] = "closed") => ~Registered(c)'
            /\ SendFails(c) => ~Registered(c)'
            /\ (~Registered(c) /\ ((wspc[c] = "recv" /\ wspc'[c] = "closed") \/ SendFails(c)))
                  => active_connections' = active_connections
            /\ (wspc'[c] # wspc[c] \/ SendFails(c))
                  => \A d \in Conns \ {c} : Registered(d)' = Registered(d)]_vars

\* Two broadcasts that were in flight together have both failed their send
\* to the same connection, whose client has not left: the second failure
\* found it unregistered already; another connection is still registered.
C28_Witness ==
    \E c \in Conns :
       /\ wspc[c] = "recv"
       /\ c \in bc["http"].failed
       /\ c \in bc["http2"].failed
       /\ ~Registered(c)
       /\ \E d \in Conns \ {c} : Registered(d)

\* ------------------------------------------------------------- C29
\* C29: when the producer loses the feed, waits and connects again, the
\* queue and the state of the consumer (its buffer included) are as they
\* were and there is still one consumer; and a report that is on the queue
\* or in the buffer while the producer is in its backoff is handed to
\* process_and_flush, however long the producer stays there.
C29_ReconnectKeepsQueueAndConsumer ==
    /\ [][(ppc \in {"recv", "backoff", "connect"} /\ ppc' # ppc)
            => UNCHANGED <<queue, consumerVars>>]_vars
    /\ [](ppc \in {"recv", "backoff", "connect"} => consumers = 1)
    /\ \A i \in Ids :
          (ppc = "backoff" /\ (InQueue(i) \/ InBuffer(i))) ~> (handed[i] > 0)

\* The producer is in its backoff after it had accepted a report, and the
\* consumer has just called process_and_flush on a timeout.
C29_Witness ==
    /\ ppc = "backoff"
    /\ cpc = "check"
    /\ idx = 1
    /\ trace = <<>>
    /\ trigger = "time"
    /\ consumers = 1

====
